---- MODULE Spec2Model ----
(***************************************************************************)
(* The socket-to-subprocess bridge of banking_app.                         *)
(*                                                                         *)
(* The repository holds four revisions of the server:                      *)
(*   "part000"  src/unnamed/part_000          (credential write by         *)
(*              callback, guarded handlers, 'close' notification)          *)
(*   "idx1"     src/index.js lines 1-57       (writeCreds, spawn in the    *)
(*              connection handler, 200 ms kick-start timer)               *)
(*   "idx2"     src/index.js lines 59-126     (credential write by         *)
(*              callback, socket handlers registered inside                *)
(*              run_python_script)                                         *)
(*   "idx3"     src/index.js lines 127-183    (writeCredsIfNeeded inside   *)
(*              run_python_script)                                         *)
(* One server process runs one revision; the revision is fixed in Init.    *)
(*                                                                         *)
(* Every connection is a session s.  The environment (client, file system, *)
(* subprocess, timer) is modelled by the events Node delivers to the       *)
(* handlers the code registers; each action is one run-to-completion       *)
(* handler of the event loop.  An exception nobody catches ends the server *)
(* process and with it every session.                                      *)
(***************************************************************************)
EXTENDS Integers, Sequences, FiniteSets, TLC

(* ------------------------------ bounds -------------------------------- *)
\* The environment is bounded by what it sends while one connection exists;
\* every further connection takes one message and one line from the budget.
MaxCmds == 2            \* lines headed for a subprocess's stdin, over all
                        \* sessions: command_entered messages and warm-up lines
MaxOut == 2             \* what the subprocesses raise, over all sessions:
                        \* printed lines and 'error' events

\* Two connections: sessions share nothing but creds.json, and session 1 is
\* the one that connects first.
Sessions == {1, 2}
Variants == {"part000", "idx1", "idx2", "idx3"}

(* ------------------------- program constants -------------------------- *)
\* console_output payloads the server itself produces; a line printed by
\* the subprocess is identified by its production number 1, 2, ...
MsgProgramExited == 901
MsgPythonFailed == 902
MsgCredsFailed == 903
MsgPyError == 904

\* process.env.CREDS when it is set ("secret123"), as the parts that writes
\* which stop before the end split it into
CredsValue == << "secre", "t1", "23" >>
Hole == "NUL"                  \* the zero bytes that fill the file up to the
                               \* offset of a write past its end
StaleValue == "stale"          \* what an earlier deployment left in creds.json
KickLine == ""                 \* the warm-up line of the kick-start timer
Commands == {"", "balance"}    \* payloads of command_entered


\* how far fs.writeFileSync gets: "all" of CREDS is written; the write fails
\* after "part" of it, or after "none" of it; "noopen": the file cannot be
\* opened
WriteResults == {"all", "part", "none", "noopen"}

\* what one write of fs.writeFile to the open file does: it writes "all" of
\* the data still to be written; it is "short" and writes some of it, the
\* rest being left to the next write; or it fails ("error") and writes
\* nothing
WriteCalls == {"all", "short", "error"}

\* what new PythonShell does: the subprocess is "started"; "nostart", the
\* constructor returns but the interpreter cannot be started, there is no
\* subprocess and the 'error' event follows; "throws", the constructor throws
SpawnResults == {"started", "nostart", "throws"}

\* the exceptions nobody catches: thrown by writeFileSync ("write"), thrown
\* by new PythonShell ("spawn"), the 'error' event of a subprocess's stdin
\* ("epipe"), the 'error' event of a PythonShell without listener ("error")
NoException == << "none", 0 >>
Exceptions == {"write", "spawn", "epipe", "error"}

\* the states of a PythonShell: "nostart", no subprocess was started for it;
\* "running"; "exited", ended on its own; "killed", ended by the signal of
\* terminate() / kill(); "closed", its 'close' event has been handled
ProcStates == {"nostart", "running", "exited", "killed", "closed"}

VARIABLES
    variant,        \* which revision of the server runs
    credsSet,       \* process.env.CREDS is set
    uncaught,       \* the exception that ended the server process, with the
                    \* session it came from; NoException while the server runs
    credsFile,      \* content of creds.json, as the sequence of chunks written
    conn,           \* socket of session s: "none", "open", "closed"
    writeState,     \* the credential write of session s: "idle"; "called",
                    \* fs.writeFile has been called and the file is not yet
                    \* opened; "open", the file is opened and truncated;
                    \* "part", a short write has written some of CREDS and
                    \* the rest is still to be written;
                    \* "written", the data is in the file and the callback is
                    \* due; "failed", the write has failed (and the callback
                    \* is due with err)
    writePos,       \* the number of parts of CREDS the writes of the
                    \* fs.writeFile call of session s have written so far:
                    \* the offset of its next write; 0 unless writeState[s]
                    \* is "part"
    pyshell,        \* the handle the handlers of s see: 0 (null/undefined) or
                    \* the index in procs[s] of the PythonShell
    procs,          \* the PythonShells constructed for s, in order, each by
                    \* its state (ProcStates)
    kickPending,    \* the setTimeout of s has not fired yet
    errRaised,      \* the subprocess of s has raised its 'error' event
    stdoutPipe,     \* lines printed on stdout, not yet given to 'message'
    stderrPipe,     \* lines printed on stderr, not yet given to 'stderr'
    produced,       \* history: stream of every line printed, in print order
    stdin,          \* history: lines written to the stdin of a live subprocess
    received,       \* history: command_entered payloads received while running
    recvIdle,       \* history: number received while not running
    deadWrites,     \* history: number of writes to a subprocess not running
    kickWritten,    \* history: the warm-up line went to a live subprocess
    epipe,          \* a write to the stdin of s has failed and the stream's
                    \* 'error' event is due
    emitted,        \* history: payloads of socket.emit('console_output', ..)
    termCalls,      \* history: calls of terminate() / kill() by the handlers
                    \* of s, each as the state the subprocess was in
    errPending      \* the session whose PythonShell has an 'error' event that
                    \* comes ahead of every other event (0: none): queued for
                    \* the next tick because the interpreter could not be
                    \* started, or raised and being thrown for want of a
                    \* listener

vars == << variant, credsSet, uncaught, credsFile, conn, writeState, writePos,
           pyshell,
           procs, kickPending, errRaised, stdoutPipe, stderrPipe, produced,
           stdin, received, recvIdle, deadWrites, kickWritten, epipe, emitted,
           termCalls, errPending >>

envVars == << variant, credsSet, uncaught >>
writeVars == << writeState, writePos >>
ioVars == << stdoutPipe, stderrPipe, produced >>
inVars == << stdin, received, recvIdle, deadWrites, kickWritten, epipe >>
outVars == << emitted >>

(* ------------------------------ helpers ------------------------------- *)
\* the server process runs
ServerUp == uncaught = NoException

\* commands received so far by session s, whatever became of them
CmdCount(s) == Len(received[s]) + recvIdle[s]

\* what the subprocess of s has raised: printed lines and its 'error' event
OutCount(s) == Len(produced[s]) + (IF errRaised[s] THEN 1 ELSE 0)

NumConnected == Cardinality({s \in Sessions : conn[s] # "none"})

\* lines session s sends or is bound to send to stdin: its commands, and the
\* warm-up line the timer set at its connection writes in any case
InCount(s) ==
    CmdCount(s) + (IF variant = "idx1" /\ conn[s] # "none" THEN 1 ELSE 0)

TotalCmds == InCount(1) + InCount(2)
TotalOut == OutCount(1) + OutCount(2)

\* the environment may send one more command / print one more line
MayCommand == TotalCmds < MaxCmds + 1 - NumConnected
MayPrint == TotalOut < MaxOut + 1 - NumConnected

\* a client may open connection s
MayConnect(s) ==
    /\ conn[s] = "none"
    /\ \A x \in Sessions : x < s => conn[x] # "none"
    /\ TotalCmds <= MaxCmds - NumConnected
    /\ TotalOut <= MaxOut - NumConnected

\* the subprocess the handle of s refers to is alive
HandleLive(s) == pyshell[s] # 0 /\ procs[s][pyshell[s]] = "running"

\* the lifecycle state of the session (spec section 3)
Running(s) == conn[s] = "open" /\ HandleLive(s)

\* some subprocess spawned for s has not been told to stop and has not ended
ProcAlive(s) == \E i \in 1..Len(procs[s]) : procs[s][i] = "running"

\* the server runs and the event loop is free to take the next event
LoopIdle == ServerUp /\ errPending = 0

TypeOK ==
    /\ variant \in Variants
    /\ credsSet \in BOOLEAN
    /\ uncaught \in {NoException} \cup (Exceptions \X Sessions)
    /\ credsFile \in Seq({CredsValue[i] : i \in 1..Len(CredsValue)} \cup {Hole, StaleValue})
    /\ Len(credsFile) <= Len(CredsValue)
    /\ conn \in [Sessions -> {"none", "open", "closed"}]
    /\ writeState \in [Sessions -> {"idle", "called", "open", "part", "written", "failed"}]
    /\ writePos \in [Sessions -> 0..(Len(CredsValue) - 1)]
    /\ \A s \in Sessions : writeState[s] = "part" <=> writePos[s] > 0
    /\ pyshell \in [Sessions -> Nat]
    /\ procs \in [Sessions -> Seq(ProcStates)]
    /\ kickPending \in [Sessions -> BOOLEAN]
    /\ errRaised \in [Sessions -> BOOLEAN]
    /\ stdoutPipe \in [Sessions -> Seq(Nat)]
    /\ stderrPipe \in [Sessions -> Seq(Nat)]
    /\ produced \in [Sessions -> Seq({"stdout", "stderr"})]
    /\ stdin \in [Sessions -> Seq(Commands)]
    /\ received \in [Sessions -> Seq(Commands)]
    /\ recvIdle \in [Sessions -> Nat]
    /\ deadWrites \in [Sessions -> Nat]
    /\ kickWritten \in [Sessions -> BOOLEAN]
    /\ epipe \in [Sessions -> BOOLEAN]
    /\ emitted \in [Sessions -> Seq(Nat)]
    /\ termCalls \in [Sessions -> Seq(ProcStates)]
    /\ errPending \in {0} \cup Sessions

Init ==
    /\ variant \in Variants
    /\ credsSet \in BOOLEAN
    /\ uncaught = NoException
    /\ credsFile = << StaleValue >>
    /\ conn = [s \in Sessions |-> "none"]
    /\ writeState = [s \in Sessions |-> "idle"]
    /\ writePos = [s \in Sessions |-> 0]
    /\ pyshell = [s \in Sessions |-> 0]
    /\ procs = [s \in Sessions |-> << >>]
    /\ kickPending = [s \in Sessions |-> FALSE]
    /\ errRaised = [s \in Sessions |-> FALSE]
    /\ stdoutPipe = [s \in Sessions |-> << >>]
    /\ stderrPipe = [s \in Sessions |-> << >>]
    /\ produced = [s \in Sessions |-> << >>]
    /\ stdin = [s \in Sessions |-> << >>]
    /\ received = [s \in Sessions |-> << >>]
    /\ recvIdle = [s \in Sessions |-> 0]
    /\ deadWrites = [s \in Sessions |-> 0]
    /\ kickWritten = [s \in Sessions |-> FALSE]
    /\ epipe = [s \in Sessions |-> FALSE]
    /\ emitted = [s \in Sessions |-> << >>]
    /\ termCalls = [s \in Sessions |-> << >>]
    /\ errPending = 0

(* --------------------- library calls the code makes ------------------- *)
\* socket.emit('console_output', msg) of session s
SocketEmit(s, msg) ==
    /\ emitted' = [emitted EXCEPT ![s] = Append(@, msg)]

\* an exception of session s that nobody catches: the server process ends
\* and every socket it holds is closed
UncaughtException(kind, s) ==
    /\ uncaught' = << kind, s >>
    /\ conn' = [x \in Sessions |->
                  IF x # s /\ conn[x] = "none" THEN "none" ELSE "closed"]

\* the file after n parts of CREDS, from part pos + 1 on, have been written
\* at their offset: what lies before the offset stays, a file that ends
\* before it is filled up with zero bytes
WriteAt(file, pos, n) ==
    [i \in 1..(IF Len(file) > pos + n THEN Len(file) ELSE pos + n) |->
        IF i > pos /\ i <= pos + n THEN CredsValue[i]
        ELSE IF i <= Len(file) THEN file[i]
        ELSE Hole]

\* a variant of WriteCredsFile that appends to the file
WriteCredsFile_Append == credsFile' = credsFile \o CredsValue

\* fs.writeFileSync('creds.json', process.env.CREDS) where all of the data
\* is written, from offset 0 of the file opened with O_TRUNC: the file holds
\* the value
WriteCredsFile == credsFile' = CredsValue

\* fs.writeFileSync throws: the file is untouched when it cannot be opened,
\* and truncated, with what the writes before the failing one have
\* written, when a write fails
WriteFileSyncFails(w) ==
    IF w = "noopen" THEN UNCHANGED credsFile
    ELSE IF w = "part"
    THEN \E n \in 1..(Len(CredsValue) - 1) : credsFile' = SubSeq(CredsValue, 1, n)
    ELSE credsFile' = << >>

\* fs.writeFile(..) is called: the open of the file is queued for the
\* thread pool and the handler goes on; the file is not touched yet
StartWriteFile(s) ==
    /\ writeState' = [writeState EXCEPT ![s] = "called"]
    /\ UNCHANGED writePos
    /\ UNCHANGED credsFile

\* the thread pool opens the file with O_TRUNC, which empties it; the data
\* follows in a later turn of the event loop.  A file that cannot be opened
\* is untouched and the callback will get the error.
WriteFileOpen(s, opened) ==
    /\ LoopIdle
    /\ writeState[s] = "called"
    /\ IF opened
       THEN /\ credsFile' = << >>
            /\ writeState' = [writeState EXCEPT ![s] = "open"]
            /\ UNCHANGED writePos
       ELSE /\ UNCHANGED credsFile
            /\ writeState' = [writeState EXCEPT ![s] = "failed"]
            /\ UNCHANGED writePos
    /\ UNCHANGED << envVars, termCalls, conn, pyshell, procs, kickPending,
                    errRaised, ioVars, inVars, outVars, errPending >>

\* one write of fs.writeFile to the open file, at the offset the earlier
\* writes of this call have reached: fs.writeFile goes on writing until all
\* of the data is written or a write fails, and each of its writes may be
\* short.  The file is shared: what another connection has truncated or
\* written in between stays as it is.
WriteFileData(s, w) ==
    /\ LoopIdle
    /\ writeState[s] \in {"open", "part"}
    /\ LET pos == writePos[s]
           left == Len(CredsValue) - writePos[s]
       IN  IF w = "all"
           THEN /\ credsFile' = WriteAt(credsFile, pos, left)
                /\ writeState' = [writeState EXCEPT ![s] = "written"]
                /\ writePos' = [writePos EXCEPT ![s] = 0]
           ELSE IF w = "short"
           THEN \E n \in 1..(left - 1) :
                    /\ credsFile' = WriteAt(credsFile, pos, n)
                    /\ writeState' = [writeState EXCEPT ![s] = "part"]
                    /\ writePos' = [writePos EXCEPT ![s] = pos + n]
           ELSE /\ UNCHANGED credsFile
                /\ writeState' = [writeState EXCEPT ![s] = "failed"]
                /\ writePos' = [writePos EXCEPT ![s] = 0]
    /\ UNCHANGED << envVars, termCalls, conn, pyshell, procs, kickPending,
                    errRaised, ioVars, inVars, outVars, errPending >>

\* new PythonShell('banking.py', ..) returns: the handle refers to the new
\* PythonShell, whose subprocess runs (sp = "started") or could not be
\* started
NewPythonShell(s, sp) ==
    /\ procs' = [procs EXCEPT ![s] = Append(@, IF sp = "started" THEN "running" ELSE "nostart")]
    /\ pyshell' = [pyshell EXCEPT ![s] = Len(procs[s]) + 1]
    /\ errPending' = IF sp = "nostart" THEN s ELSE errPending

\* pyshell.send(line): one line written to the subprocess's stdin.  A line
\* for a subprocess that has ended, or was never started, reaches nobody.  While the 'close' event
\* is outstanding the write either fails with EPIPE, which the stream
\* reports by an 'error' event later, or is discarded (the stream is
\* destroyed already, or the signal has not yet stopped the subprocess);
\* afterwards it is discarded.
PyshellSend(s, line) ==
    IF HandleLive(s)
    THEN /\ stdin' = [stdin EXCEPT ![s] = Append(@, line)]
         /\ UNCHANGED << deadWrites, epipe >>
    ELSE /\ deadWrites' = [deadWrites EXCEPT ![s] = @ + 1]
         /\ UNCHANGED stdin
         /\ epipe' \in IF pyshell[s] # 0 /\ procs[s][pyshell[s]] \in {"exited", "killed"}
                       THEN {epipe, [epipe EXCEPT ![s] = TRUE]}
                       ELSE {epipe}

\* pyshell.terminate() / pyshell.kill(): the signal stops a running subprocess
PyshellTerminate(s) ==
    /\ procs' = [procs EXCEPT ![s][pyshell[s]] = IF @ = "running" THEN "killed" ELSE @]
    /\ termCalls' = [termCalls EXCEPT ![s] = Append(@, procs[s][pyshell[s]])]

(* --------------------------- the client ------------------------------- *)
\* the client of s sends command_entered: the message counts as received
\* while running when the session's subprocess is alive, as idle otherwise
ClientCommand(s) ==
    /\ LoopIdle
    /\ conn[s] = "open"
    /\ MayCommand

RecordCommand(s, command) ==
    IF Running(s)
    THEN /\ received' = [received EXCEPT ![s] = Append(@, command)]
         /\ UNCHANGED recvIdle
    ELSE /\ recvIdle' = [recvIdle EXCEPT ![s] = @ + 1]
         /\ UNCHANGED received

(* ------------------------- the subprocess ----------------------------- *)
\* banking.py prints one line on stdout or stderr
ProcPrint(s, stream) ==
    /\ LoopIdle
    /\ ProcAlive(s)
    /\ MayPrint
    /\ produced' = [produced EXCEPT ![s] = Append(@, stream)]
    /\ IF stream = "stdout"
       THEN /\ stdoutPipe' = [stdoutPipe EXCEPT ![s] = Append(@, Len(produced[s]) + 1)]
            /\ UNCHANGED stderrPipe
       ELSE /\ stderrPipe' = [stderrPipe EXCEPT ![s] = Append(@, Len(produced[s]) + 1)]
            /\ UNCHANGED stdoutPipe
    /\ UNCHANGED << envVars, termCalls, credsFile, conn, writeVars, pyshell, procs,
                    kickPending, errRaised, inVars, outVars, errPending >>

\* banking.py ends on its own
ProcExit(s) ==
    /\ LoopIdle
    /\ \E i \in 1..Len(procs[s]) :
          /\ procs[s][i] = "running"
          /\ procs' = [procs EXCEPT ![s][i] = "exited"]
    /\ UNCHANGED << envVars, termCalls, credsFile, conn, writeVars, pyshell,
                    kickPending, errRaised, ioVars, inVars, outVars, errPending >>

\* a subprocess whose 'close' event is due: it has ended and both of its
\* output streams have been read to the end
CloseDue(s, i) ==
    /\ i \in 1..Len(procs[s])
    /\ procs[s][i] \in {"exited", "killed"}
    /\ stdoutPipe[s] = << >>
    /\ stderrPipe[s] = << >>

\* the 'error' event of the stdin of a subprocess of s: neither python-shell
\* nor the server listens for it, so it is thrown
StdinError(s) ==
    /\ LoopIdle
    /\ epipe[s]
    /\ UncaughtException("epipe", s)
    /\ UNCHANGED << variant, credsSet, termCalls, credsFile, writeVars, pyshell,
                    procs, kickPending, errRaised, ioVars, inVars, outVars,
                    errPending >>

\* the body shared by every revision's pyshell.on('message') listener:
\* socket.emit('console_output', message)
ForwardStdout(s) ==
    /\ LoopIdle
    /\ stdoutPipe[s] # << >>
    /\ SocketEmit(s, Head(stdoutPipe[s]))
    /\ stdoutPipe' = [stdoutPipe EXCEPT ![s] = Tail(@)]
    /\ UNCHANGED << envVars, termCalls, credsFile, conn, writeVars, pyshell, procs,
                    kickPending, errRaised, stderrPipe, produced, inVars,
                    errPending >>

\* the PythonShell of s may raise its 'error' event: at most once, while it
\* has not been closed.  One that could not start its subprocess raises it
\* in any case; otherwise the event is the subprocess's choice.
ErrorDue(s) ==
    /\ ServerUp
    /\ ~errRaised[s]
    /\ pyshell[s] # 0
    /\ \/ errPending = s
       \/ errPending = 0 /\ procs[s][pyshell[s]] # "closed" /\ MayPrint

\* the body shared by the pyshell.on('error') listeners of index.js:
\* socket.emit('console_output', String(err))
ForwardError(s) ==
    /\ ErrorDue(s)
    /\ errRaised' = [errRaised EXCEPT ![s] = TRUE]
    /\ errPending' = 0
    /\ SocketEmit(s, MsgPyError)
    /\ UNCHANGED << envVars, termCalls, credsFile, conn, writeVars, pyshell, procs,
                    kickPending, ioVars, inVars >>

\* index.js registers no 'stderr' listener: a line on stderr is read and
\* reaches nobody
StderrUnheard(s) ==
    /\ variant # "part000"
    /\ LoopIdle
    /\ stderrPipe[s] # << >>
    /\ stderrPipe' = [stderrPipe EXCEPT ![s] = Tail(@)]
    /\ UNCHANGED << envVars, termCalls, credsFile, conn, writeVars, pyshell, procs,
                    kickPending, errRaised, stdoutPipe, produced, inVars,
                    outVars, errPending >>

\* the subprocess's 'close' event where the listener changes no state
\* (index.js: no listener, or console.log only)
CloseQuietly(s) ==
    /\ LoopIdle
    /\ \E i \in 1..Len(procs[s]) :
          /\ CloseDue(s, i)
          /\ procs' = [procs EXCEPT ![s][i] = "closed"]
    /\ UNCHANGED << envVars, termCalls, credsFile, conn, writeVars, pyshell,
                    kickPending, errRaised, ioVars, inVars, outVars,
                    errPending >>

(* ------------------- src/unnamed/part_000 ("part000") ------------------ *)
\* a variant of run_python_script_part000 that spawns again in the catch
run_python_script_part000_Retry(s, sp) ==
    IF sp # "throws"
    THEN /\ NewPythonShell(s, sp)
         /\ UNCHANGED outVars
    ELSE /\ SocketEmit(s, MsgPythonFailed)
         /\ NewPythonShell(s, "started")

\* sp: what new PythonShell does
run_python_script_part000(s, sp) ==
    IF sp # "throws"
    THEN /\ NewPythonShell(s, sp)
         /\ UNCHANGED outVars
    ELSE /\ SocketEmit(s, MsgPythonFailed)
         /\ UNCHANGED << procs, pyshell, errPending >>

\* sp: what new PythonShell does, where the handler calls it (CREDS not set)
Connection_part000(s, sp) ==
    /\ variant = "part000"
    /\ LoopIdle
    /\ MayConnect(s)
    /\ conn' = [conn EXCEPT ![s] = "open"]
    /\ IF credsSet
       THEN /\ sp = "started"
            /\ StartWriteFile(s)
            /\ UNCHANGED << pyshell, procs, outVars, errPending >>
       ELSE /\ run_python_script_part000(s, sp)
            /\ UNCHANGED << credsFile, writeVars >>
    /\ UNCHANGED << envVars, termCalls, kickPending, errRaised, ioVars, inVars >>

\* a variant of WriteFileCallback_part000 that starts the program after a
\* failed write too
WriteFileCallback_part000_Always(s, sp) ==
    /\ variant = "part000"
    /\ LoopIdle
    /\ writeState[s] \in {"written", "failed"}
    /\ writeState' = [writeState EXCEPT ![s] = "idle"]
    /\ UNCHANGED writePos
    /\ IF writeState[s] = "failed"
       THEN /\ sp = "started"
            /\ NewPythonShell(s, sp)
            /\ SocketEmit(s, MsgCredsFailed)
       ELSE run_python_script_part000(s, sp)
    /\ UNCHANGED << envVars, termCalls, credsFile, conn, kickPending, errRaised,
                    ioVars, inVars >>

\* the steps of fs.writeFile between the call and the callback
WriteFileOpen_part000(s, opened) ==
    /\ variant = "part000"
    /\ WriteFileOpen(s, opened)

WriteFileData_part000(s, w) ==
    /\ variant = "part000"
    /\ WriteFileData(s, w)

\* the callback gets err when the write has failed; it writes nothing
\* itself, and the spawn finds creds.json as it is then
WriteFileCallback_part000(s, sp) ==
    /\ variant = "part000"
    /\ LoopIdle
    /\ writeState[s] \in {"written", "failed"}
    /\ writeState' = [writeState EXCEPT ![s] = "idle"]
    /\ UNCHANGED writePos
    /\ IF writeState[s] = "failed"
       THEN /\ sp = "started"
            /\ SocketEmit(s, MsgCredsFailed)
            /\ UNCHANGED << procs, pyshell, errPending >>
       ELSE run_python_script_part000(s, sp)
    /\ UNCHANGED << envVars, termCalls, credsFile, conn, kickPending, errRaised,
                    ioVars, inVars >>

\* a variant of OnMessage_part000 that forwards the newest line first
OnMessage_part000_Newest(s) ==
    /\ variant = "part000"
    /\ LoopIdle
    /\ stdoutPipe[s] # << >>
    /\ SocketEmit(s, stdoutPipe[s][Len(stdoutPipe[s])])
    /\ stdoutPipe' = [stdoutPipe EXCEPT ![s] = SubSeq(@, 1, Len(@) - 1)]
    /\ UNCHANGED << envVars, termCalls, credsFile, conn, writeVars, pyshell, procs,
                    kickPending, errRaised, stderrPipe, produced, inVars,
                    errPending >>

OnMessage_part000(s) ==
    /\ variant = "part000"
    /\ ForwardStdout(s)

\* a variant of OnStderr_part000 that gives the subprocess up on its first
\* line of stderr
OnStderr_part000_Fatal(s) ==
    /\ variant = "part000"
    /\ LoopIdle
    /\ stderrPipe[s] # << >>
    /\ SocketEmit(s, Head(stderrPipe[s]))
    /\ stderrPipe' = [stderrPipe EXCEPT ![s] = Tail(@)]
    /\ pyshell' = [pyshell EXCEPT ![s] = 0]
    /\ UNCHANGED << envVars, termCalls, credsFile, conn, writeVars, procs,
                    kickPending, errRaised, stdoutPipe, produced, inVars,
                    errPending >>

OnStderr_part000(s) ==
    /\ variant = "part000"
    /\ LoopIdle
    /\ stderrPipe[s] # << >>
    /\ SocketEmit(s, Head(stderrPipe[s]))
    /\ stderrPipe' = [stderrPipe EXCEPT ![s] = Tail(@)]
    /\ UNCHANGED << envVars, termCalls, credsFile, conn, writeVars, pyshell, procs,
                    kickPending, errRaised, stdoutPipe, produced, inVars,
                    errPending >>

\* a variant of OnClose_part000 that leaves the handle set
OnClose_part000_KeepHandle(s) ==
    /\ variant = "part000"
    /\ LoopIdle
    /\ \E i \in 1..Len(procs[s]) :
          /\ CloseDue(s, i)
          /\ procs' = [procs EXCEPT ![s][i] = "closed"]
    /\ SocketEmit(s, MsgProgramExited)
    /\ UNCHANGED << envVars, termCalls, credsFile, conn, writeVars, pyshell,
                    kickPending, errRaised, ioVars, inVars, errPending >>

\* a variant of OnClose_part000 that starts the program again
OnClose_part000_Restart(s) ==
    /\ variant = "part000"
    /\ LoopIdle
    /\ \E i \in 1..Len(procs[s]) :
          /\ CloseDue(s, i)
          /\ procs' = [procs EXCEPT ![s] = Append([@ EXCEPT ![i] = "closed"], "running")]
    /\ SocketEmit(s, MsgProgramExited)
    /\ pyshell' = [pyshell EXCEPT ![s] = Len(procs[s]) + 1]
    /\ UNCHANGED << envVars, termCalls, credsFile, conn, writeVars, kickPending,
                    errRaised, ioVars, inVars, errPending >>

OnClose_part000(s) ==
    /\ variant = "part000"
    /\ LoopIdle
    /\ \E i \in 1..Len(procs[s]) :
          /\ CloseDue(s, i)
          /\ procs' = [procs EXCEPT ![s][i] = "closed"]
    /\ SocketEmit(s, MsgProgramExited)
    /\ pyshell' = [pyshell EXCEPT ![s] = 0]
    /\ UNCHANGED << envVars, termCalls, credsFile, conn, writeVars, kickPending,
                    errRaised, ioVars, inVars, errPending >>

\* a variant of OnCommandEntered_part000 without the `if (!pyshell) return`
OnCommandEntered_part000_NoGuard(s, command) ==
    /\ variant = "part000"
    /\ ClientCommand(s)
    /\ RecordCommand(s, command)
    /\ PyshellSend(s, command)
    /\ UNCHANGED kickWritten
    /\ UNCHANGED << envVars, termCalls, credsFile, conn, writeVars, pyshell, procs,
                    kickPending, errRaised, ioVars, outVars, errPending >>

OnCommandEntered_part000(s, command) ==
    /\ variant = "part000"
    /\ ClientCommand(s)
    /\ RecordCommand(s, command)
    /\ IF pyshell[s] = 0
       THEN UNCHANGED << stdin, deadWrites, epipe >>
       ELSE PyshellSend(s, command)
    /\ UNCHANGED kickWritten
    /\ UNCHANGED << envVars, termCalls, credsFile, conn, writeVars, pyshell, procs,
                    kickPending, errRaised, ioVars, outVars, errPending >>

OnDisconnect_part000(s) ==
    /\ variant = "part000"
    /\ LoopIdle
    /\ conn[s] = "open"
    /\ conn' = [conn EXCEPT ![s] = "closed"]
    /\ IF pyshell[s] # 0
       THEN /\ PyshellTerminate(s)
            /\ pyshell' = [pyshell EXCEPT ![s] = 0]
       ELSE UNCHANGED << procs, pyshell, termCalls >>
    /\ UNCHANGED << envVars, credsFile, writeVars, kickPending, errRaised,
                    ioVars, inVars, outVars, errPending >>

\* The PythonShell raises 'error'.  This revision registers 'message',
\* 'stderr' and 'close' and no listener for 'error', so the event is thrown
\* (UncaughtError_part000).
OnError_part000(s) ==
    /\ variant = "part000"
    /\ ErrorDue(s)
    /\ errRaised' = [errRaised EXCEPT ![s] = TRUE]
    /\ errPending' = s
    /\ UNCHANGED << envVars, termCalls, credsFile, conn, writeVars, pyshell, procs,
                    kickPending, ioVars, inVars, outVars >>

\* the 'error' event that has been raised and has no listener is thrown out
\* of the emit: an uncaught exception
UncaughtError_part000(s) ==
    /\ variant = "part000"
    /\ ServerUp
    /\ errPending = s
    /\ errRaised[s]
    /\ UncaughtException("error", s)
    /\ errPending' = 0
    /\ UNCHANGED << variant, credsSet, termCalls, credsFile, writeVars, pyshell,
                    procs, kickPending, errRaised, ioVars, inVars, outVars >>

(* ------------------ src/index.js lines 1-57 ("idx1") ------------------- *)
\* This revision catches nothing: an exception out of writeFileSync or of
\* new PythonShell leaves the connection handler, skipping the rest of it,
\* and ends the server.
\* a variant of writeCreds without the test of process.env.CREDS
writeCreds_Always(w) == WriteCredsFile

\* w: how far fs.writeFileSync gets
writeCreds(w) ==
    IF credsSet
    THEN IF w = "all" THEN WriteCredsFile ELSE WriteFileSyncFails(w)
    ELSE UNCHANGED credsFile

\* sp: what new PythonShell does
Connection_idx1(s, w, sp) ==
    /\ variant = "idx1"
    /\ LoopIdle
    /\ MayConnect(s)
    /\ ~credsSet => w = "all"
    /\ writeCreds(w)
    /\ IF credsSet /\ w # "all"
       THEN /\ sp = "started"
            /\ UncaughtException("write", s)
            /\ writeState' = [writeState EXCEPT ![s] = "failed"]
            /\ UNCHANGED writePos
            /\ UNCHANGED << pyshell, procs, errPending, kickPending >>
       ELSE IF sp = "throws"
            THEN /\ UncaughtException("spawn", s)
                 /\ UNCHANGED << writeVars, pyshell, procs, errPending,
                                 kickPending >>
            ELSE /\ conn' = [conn EXCEPT ![s] = "open"]
                 /\ NewPythonShell(s, sp)
                 /\ kickPending' = [kickPending EXCEPT ![s] = TRUE]
                 /\ UNCHANGED << uncaught, writeVars >>
    /\ UNCHANGED << variant, credsSet, termCalls, errRaised, ioVars, inVars, outVars >>

OnMessage_idx1(s) ==
    /\ variant = "idx1"
    /\ ForwardStdout(s)

OnError_idx1(s) ==
    /\ variant = "idx1"
    /\ ForwardError(s)

\* a variant of OnCommandEntered_idx1 that sends the line twice
OnCommandEntered_idx1_Twice(s, command) ==
    /\ variant = "idx1"
    /\ ClientCommand(s)
    /\ RecordCommand(s, command)
    /\ IF HandleLive(s)
       THEN /\ stdin' = [stdin EXCEPT ![s] = @ \o << command, command >>]
            /\ UNCHANGED << deadWrites, epipe >>
       ELSE /\ deadWrites' = [deadWrites EXCEPT ![s] = @ + 2]
            /\ UNCHANGED << stdin, epipe >>
    /\ UNCHANGED kickWritten
    /\ UNCHANGED << envVars, termCalls, credsFile, conn, writeVars, pyshell, procs,
                    kickPending, errRaised, ioVars, outVars, errPending >>

OnCommandEntered_idx1(s, command) ==
    /\ variant = "idx1"
    /\ ClientCommand(s)
    /\ RecordCommand(s, command)
    /\ PyshellSend(s, command)
    /\ UNCHANGED kickWritten
    /\ UNCHANGED << envVars, termCalls, credsFile, conn, writeVars, pyshell, procs,
                    kickPending, errRaised, ioVars, outVars, errPending >>

OnDisconnect_idx1(s) ==
    /\ variant = "idx1"
    /\ LoopIdle
    /\ conn[s] = "open"
    /\ conn' = [conn EXCEPT ![s] = "closed"]
    /\ PyshellTerminate(s)
    /\ UNCHANGED << envVars, credsFile, writeVars, pyshell, kickPending,
                    errRaised, ioVars, inVars, outVars, errPending >>

\* the setTimeout(.., 200) callback
KickTimer_idx1(s) ==
    /\ variant = "idx1"
    /\ LoopIdle
    /\ kickPending[s]
    /\ kickPending' = [kickPending EXCEPT ![s] = FALSE]
    /\ PyshellSend(s, KickLine)
    /\ kickWritten' = [kickWritten EXCEPT ![s] = HandleLive(s)]
    /\ UNCHANGED << received, recvIdle >>
    /\ UNCHANGED << envVars, termCalls, credsFile, conn, writeVars, pyshell, procs,
                    errRaised, ioVars, outVars, errPending >>

OnClose_idx1(s) ==
    /\ variant = "idx1"
    /\ CloseQuietly(s)

(* ----------------- src/index.js lines 59-126 ("idx2") ------------------ *)
\* the socket listeners are registered next to the spawn, so they exist
\* exactly when pyshell[s] # 0
run_python_script_idx2(s, sp) ==
    IF sp # "throws"
    THEN /\ NewPythonShell(s, sp)
         /\ UNCHANGED outVars
    ELSE /\ SocketEmit(s, MsgPythonFailed)
         /\ UNCHANGED << procs, pyshell, errPending >>

Connection_idx2(s, sp) ==
    /\ variant = "idx2"
    /\ LoopIdle
    /\ MayConnect(s)
    /\ conn' = [conn EXCEPT ![s] = "open"]
    /\ IF credsSet
       THEN /\ sp = "started"
            /\ StartWriteFile(s)
            /\ UNCHANGED << pyshell, procs, outVars, errPending >>
       ELSE /\ run_python_script_idx2(s, sp)
            /\ UNCHANGED << credsFile, writeVars >>
    /\ UNCHANGED << envVars, termCalls, kickPending, errRaised, ioVars, inVars >>

WriteFileOpen_idx2(s, opened) ==
    /\ variant = "idx2"
    /\ WriteFileOpen(s, opened)

WriteFileData_idx2(s, w) ==
    /\ variant = "idx2"
    /\ WriteFileData(s, w)

WriteFileCallback_idx2(s, sp) ==
    /\ variant = "idx2"
    /\ LoopIdle
    /\ writeState[s] \in {"written", "failed"}
    /\ writeState' = [writeState EXCEPT ![s] = "idle"]
    /\ UNCHANGED writePos
    /\ IF writeState[s] = "failed"
       THEN /\ sp = "started"
            /\ SocketEmit(s, MsgCredsFailed)
            /\ UNCHANGED << procs, pyshell, errPending >>
       ELSE run_python_script_idx2(s, sp)
    /\ UNCHANGED << envVars, termCalls, credsFile, conn, kickPending, errRaised,
                    ioVars, inVars >>

OnDisconnect_idx2(s) ==
    /\ variant = "idx2"
    /\ LoopIdle
    /\ conn[s] = "open"
    /\ conn' = [conn EXCEPT ![s] = "closed"]
    /\ IF pyshell[s] # 0
       THEN PyshellTerminate(s)
       ELSE UNCHANGED << procs, termCalls >>
    /\ UNCHANGED << envVars, credsFile, writeVars, pyshell, kickPending,
                    errRaised, ioVars, inVars, outVars, errPending >>

OnCommandEntered_idx2(s, command) ==
    /\ variant = "idx2"
    /\ ClientCommand(s)
    /\ RecordCommand(s, command)
    /\ IF pyshell[s] = 0
       THEN UNCHANGED << stdin, deadWrites, epipe >>
       ELSE PyshellSend(s, command)
    /\ UNCHANGED kickWritten
    /\ UNCHANGED << envVars, termCalls, credsFile, conn, writeVars, pyshell, procs,
                    kickPending, errRaised, ioVars, outVars, errPending >>

OnMessage_idx2(s) ==
    /\ variant = "idx2"
    /\ ForwardStdout(s)

OnClose_idx2(s) ==
    /\ variant = "idx2"
    /\ CloseQuietly(s)

OnError_idx2(s) ==
    /\ variant = "idx2"
    /\ ForwardError(s)

(* ---------------- src/index.js lines 127-183 ("idx3") ------------------ *)
\* As in "idx1", nothing is caught: an exception out of writeFileSync or
\* of new PythonShell leaves run_python_script and the connection handler
\* and ends the server.
writeCredsIfNeeded(w) ==
    IF credsSet
    THEN IF w = "all" THEN WriteCredsFile ELSE WriteFileSyncFails(w)
    ELSE UNCHANGED credsFile

\* w: how far fs.writeFileSync gets; sp: what new PythonShell does
run_python_script_idx3(s, w, sp) ==
    /\ writeCredsIfNeeded(w)
    /\ IF credsSet /\ w # "all"
       THEN /\ sp = "started"
            /\ UncaughtException("write", s)
            /\ writeState' = [writeState EXCEPT ![s] = "failed"]
            /\ UNCHANGED writePos
            /\ UNCHANGED << pyshell, procs, errPending >>
       ELSE IF sp = "throws"
            THEN /\ UncaughtException("spawn", s)
                 /\ UNCHANGED << writeVars, pyshell, procs, errPending >>
            ELSE /\ conn' = [conn EXCEPT ![s] = "open"]
                 /\ NewPythonShell(s, sp)
                 /\ UNCHANGED << uncaught, writeVars >>

Connection_idx3(s, w, sp) ==
    /\ variant = "idx3"
    /\ LoopIdle
    /\ MayConnect(s)
    /\ ~credsSet => w = "all"
    /\ run_python_script_idx3(s, w, sp)
    /\ UNCHANGED << variant, credsSet, termCalls, kickPending, errRaised, ioVars,
                    inVars, outVars >>

OnMessage_idx3(s) ==
    /\ variant = "idx3"
    /\ ForwardStdout(s)

OnError_idx3(s) ==
    /\ variant = "idx3"
    /\ ForwardError(s)

OnCommandEntered_idx3(s, command) ==
    /\ variant = "idx3"
    /\ ClientCommand(s)
    /\ RecordCommand(s, command)
    /\ PyshellSend(s, command)
    /\ UNCHANGED kickWritten
    /\ UNCHANGED << envVars, termCalls, credsFile, conn, writeVars, pyshell, procs,
                    kickPending, errRaised, ioVars, outVars, errPending >>

OnDisconnect_idx3(s) ==
    /\ variant = "idx3"
    /\ LoopIdle
    /\ conn[s] = "open"
    /\ conn' = [conn EXCEPT ![s] = "closed"]
    /\ IF pyshell[s] # 0
       THEN PyshellTerminate(s)
       ELSE UNCHANGED << procs, termCalls >>
    /\ UNCHANGED << envVars, credsFile, writeVars, pyshell, kickPending,
                    errRaised, ioVars, inVars, outVars, errPending >>

OnClose_idx3(s) ==
    /\ variant = "idx3"
    /\ CloseQuietly(s)

Next ==
    \/ \E s \in Sessions, stream \in {"stdout", "stderr"} : ProcPrint(s, stream)
    \/ \E s \in Sessions : ProcExit(s)
    \/ \E s \in Sessions : StdinError(s)
    \/ \E s \in Sessions, sp \in SpawnResults : Connection_part000(s, sp)
    \/ \E s \in Sessions, opened \in BOOLEAN : WriteFileOpen_part000(s, opened)
    \/ \E s \in Sessions, w \in WriteCalls : WriteFileData_part000(s, w)
    \/ \E s \in Sessions, sp \in SpawnResults : WriteFileCallback_part000(s, sp)
    \/ \E s \in Sessions : OnMessage_part000(s)
    \/ \E s \in Sessions : OnStderr_part000(s)
    \/ \E s \in Sessions : OnClose_part000(s)
    \/ \E s \in Sessions, command \in Commands : OnCommandEntered_part000(s, command)
    \/ \E s \in Sessions : OnDisconnect_part000(s)
    \/ \E s \in Sessions : OnError_part000(s)
    \/ \E s \in Sessions : UncaughtError_part000(s)
    \/ \E s \in Sessions : StderrUnheard(s)
    \/ \E s \in Sessions, w \in WriteResults, sp \in SpawnResults :
          Connection_idx1(s, w, sp)
    \/ \E s \in Sessions : OnMessage_idx1(s)
    \/ \E s \in Sessions : OnError_idx1(s)
    \/ \E s \in Sessions, command \in Commands : OnCommandEntered_idx1(s, command)
    \/ \E s \in Sessions : OnDisconnect_idx1(s)
    \/ \E s \in Sessions : KickTimer_idx1(s)
    \/ \E s \in Sessions : OnClose_idx1(s)
    \/ \E s \in Sessions, sp \in SpawnResults : Connection_idx2(s, sp)
    \/ \E s \in Sessions, opened \in BOOLEAN : WriteFileOpen_idx2(s, opened)
    \/ \E s \in Sessions, w \in WriteCalls : WriteFileData_idx2(s, w)
    \/ \E s \in Sessions, sp \in SpawnResults : WriteFileCallback_idx2(s, sp)
    \/ \E s \in Sessions : OnDisconnect_idx2(s)
    \/ \E s \in Sessions, command \in Commands : OnCommandEntered_idx2(s, command)
    \/ \E s \in Sessions : OnMessage_idx2(s)
    \/ \E s \in Sessions : OnClose_idx2(s)
    \/ \E s \in Sessions : OnError_idx2(s)
    \/ \E s \in Sessions, w \in WriteResults, sp \in SpawnResults :
          Connection_idx3(s, w, sp)
    \/ \E s \in Sessions : OnMessage_idx3(s)
    \/ \E s \in Sessions : OnError_idx3(s)
    \/ \E s \in Sessions, command \in Commands : OnCommandEntered_idx3(s, command)
    \/ \E s \in Sessions : OnDisconnect_idx3(s)
    \/ \E s \in Sessions : OnClose_idx3(s)

Spec == Init /\ [][Next]_vars

(* ============================ properties ============================== *)
Count(seq, x) == Len(SelectSeq(seq, LAMBDA m : m = x))

InsertAt(seq, i, x) == SubSeq(seq, 1, i - 1) \o << x >> \o SubSeq(seq, i, Len(seq))

\* start-up of session s is over: the connection handler has run and no
\* credential write is in flight
StartupDone(s) == conn[s] # "none" /\ writeState[s] = "idle"

\* the credential write of s failed / the spawn of s threw, and the client
\* was told
CredsFailed(s) == Count(emitted[s], MsgCredsFailed) > 0
SpawnFailed(s) == Count(emitted[s], MsgPythonFailed) > 0

\* the spawn of s threw and nobody caught it
SpawnUncaught(s) == uncaught = << "spawn", s >>

\* new PythonShell returned for s and the interpreter could not be started
SpawnNoStart(s) == \E i \in 1..Len(procs[s]) : procs[s][i] = "nostart"

\* the subprocesses started for s
Started(s) == SelectSeq(procs[s], LAMBDA p : p # "nostart")

\* the session has closed: by disconnect, or its subprocess's close event
\* has been handled
Closed(s) ==
    \/ conn[s] = "closed"
    \/ \E i \in 1..Len(procs[s]) : procs[s][i] = "closed"

\* production numbers of the lines s printed on a stream, in print order
StreamLines(s, stream) ==
    SelectSeq([i \in 1..Len(produced[s]) |-> i], LAMBDA i : produced[s][i] = stream)

\* printed lines among the console_output messages of s, in emit order
OutLines(s) == SelectSeq(emitted[s], LAMBDA m : m \in 1..Len(produced[s]))
EmittedOf(s, stream) ==
    SelectSeq(OutLines(s), LAMBDA m : produced[s][m] = stream)

\* lines printed and already handed to a listener, in print order
Delivered(s) ==
    SelectSeq([i \in 1..Len(produced[s]) |-> i],
              LAMBDA i : /\ \A k \in 1..Len(stdoutPipe[s]) : stdoutPipe[s][k] # i
                         /\ \A k \in 1..Len(stderrPipe[s]) : stderrPipe[s][k] # i)

(* C1: once the connection of a session has closed, no subprocess spawned  *)
(* for that session is still running -- also when disconnect comes before  *)
(* the credential write's callback.  Stated while the server runs.  The    *)
(* code breaks it: a disconnect that finds pyshell null does nothing, and  *)
(* the callback spawns later.                                              *)
C1_NoSubprocessOutlivesConnection ==
    ServerUp => \A s \in Sessions : conn[s] = "closed" => ~ProcAlive(s)

(* C2 as stated: a session never has more than one subprocess, and once    *)
(* start-up has finished it has spawned exactly one.                       *)
C2_ExactlyOneSpawn ==
    \A s \in Sessions :
        /\ Len(procs[s]) <= 1
        /\ StartupDone(s) => Len(procs[s]) = 1

(* C2 amended: a session never has more than one subprocess and never     *)
(* spawns a second; once start-up has finished it has spawned exactly one  *)
(* unless the credential write failed, the spawn threw (caught and         *)
(* reported, or uncaught) or the interpreter could not be started, and     *)
(* then none.                                                              *)
C2_AtMostOneSpawn ==
    \A s \in Sessions :
        /\ Len(procs[s]) <= 1
        /\ pyshell[s] \in {0, 1}
        /\ ~StartupDone(s) => procs[s] = << >>
        /\ StartupDone(s) =>
              (Len(Started(s)) = 1 <=>
                  ~(CredsFailed(s) \/ SpawnFailed(s) \/ SpawnUncaught(s)
                      \/ SpawnNoStart(s)))

\* the subprocess of an open session has exited, its close event has been
\* handled, and nothing was spawned in its place
C2_Witness ==
    \E s \in Sessions : conn[s] = "open" /\ procs[s] = << "closed" >>

(* C3 as stated: the lines written to the subprocess's stdin are exactly   *)
(* the command_entered payloads received while running, in that order.     *)
C3_StdinIsReceived ==
    \A s \in Sessions : stdin[s] = received[s]

(* C3 amended: the lines written to stdin are the payloads received while  *)
(* running, in receipt order, none altered, lost or duplicated; the one    *)
(* line that can be added is the blank warm-up line of the kick-start      *)
(* timer, once, at any place among them.                                   *)
C3_StdinIsReceivedPlusKick ==
    \A s \in Sessions :
        IF kickWritten[s]
        THEN \E i \in 1..(Len(received[s]) + 1) :
                 stdin[s] = InsertAt(received[s], i, KickLine)
        ELSE stdin[s] = received[s]

\* a command was forwarded and the warm-up line was written as well
C3_Witness ==
    \E s \in Sessions :
        kickWritten[s] /\ Len(received[s]) >= 1 /\ Len(stdin[s]) = Len(received[s]) + 1

(* C4 as stated: while the client is connected, the printed lines it has   *)
(* been sent are the lines handed to the listeners, in print order, stdout *)
(* and stderr together.                                                    *)
C4_OutputInPrintOrder ==
    \A s \in Sessions :
        (variant = "part000" /\ conn[s] = "open") => OutLines(s) = Delivered(s)

(* C4 amended: while the client is connected, the lines of stdout are sent *)
(* in print order and unmodified, none lost or duplicated, and so are the  *)
(* lines of stderr; a stdout line and a stderr line may be sent in either  *)
(* order.                                                                  *)
C4_OutputInOrderPerStream ==
    \A s \in Sessions :
        (variant = "part000" /\ conn[s] = "open") =>
            /\ EmittedOf(s, "stdout") \o stdoutPipe[s] = StreamLines(s, "stdout")
            /\ EmittedOf(s, "stderr") \o stderrPipe[s] = StreamLines(s, "stderr")

\* a stdout line printed first has been sent after a stderr line printed later
C4_Witness ==
    \E s \in Sessions :
        /\ variant = "part000"
        /\ conn[s] = "open"
        /\ produced[s] = << "stdout", "stderr" >>
        /\ OutLines(s) = << 2, 1 >>

(* C5: after the client has disconnected, no console_output message is     *)
(* emitted for the session: no late line of the subprocess, no 'Program    *)
(* exited'.  Stated where start-up is synchronous (CREDS not set), so that *)
(* the only messages in question are those two.  The code breaks it: the   *)
(* listeners of the subprocess stay registered and emit.                   *)
C5_NoEmitAfterDisconnect ==
    [][\A s \in Sessions :
          (variant = "part000" /\ ~credsSet /\ conn[s] = "closed") =>
              emitted'[s] = emitted[s]]_vars

(* C6: when the subprocess exits on its own, the client gets one 'Program  *)
(* exited' and every later command is dropped, nothing being written to    *)
(* the dead subprocess.  The code breaks it between the exit and the close *)
(* event, while pyshell is still set.                                      *)
C6_NothingWrittenToDeadSubprocess ==
    \A s \in Sessions :
        variant = "part000" =>
            /\ deadWrites[s] = 0
            /\ Count(emitted[s], MsgProgramExited) <= 1

(* C7: a closed session never runs again: once the session has closed, the *)
(* handle is never a live subprocess.  The code breaks it when the         *)
(* credential write's callback runs after the disconnect.                  *)
C7_ClosedStaysClosed ==
    [][\A s \in Sessions : Closed(s) => ~HandleLive(s)']_vars

(* C8: a command_entered received before the subprocess has been spawned   *)
(* is dropped: the step writes nothing to stdin and emits nothing, and the *)
(* spawn starts the subprocess with nothing written to its stdin.          *)
C8_EarlyCommandDropped ==
    [][\A s \in Sessions :
          /\ (procs[s] = << >> /\ recvIdle'[s] # recvIdle[s]) =>
                /\ stdin'[s] = stdin[s]
                /\ deadWrites'[s] = deadWrites[s]
                /\ emitted'[s] = emitted[s]
          /\ (procs[s] = << >> /\ procs'[s] # << >>) =>
                stdin'[s] = << >> /\ deadWrites'[s] = 0]_vars

\* a command came while the credential write was in flight, the subprocess
\* was spawned afterwards, and only the command that came later reached it
C8_Witness ==
    \E s \in Sessions :
        /\ credsSet
        /\ HandleLive(s)
        /\ recvIdle[s] = 1
        /\ Len(received[s]) = 1
        /\ stdin[s] = received[s]

(* C9 as stated: when the credential write fails, the client gets one      *)
(* error message and the subprocess is spawned all the same.               *)
C9_SpawnAfterFailedWrite ==
    \A s \in Sessions :
        CredsFailed(s) =>
            /\ Count(emitted[s], MsgCredsFailed) = 1
            /\ Len(procs[s]) = 1

(* C9 amended: when the credential write fails, the client gets one error  *)
(* message and run_python_script is not called: the session has no         *)
(* subprocess, its handle stays empty and nothing is written to a stdin.   *)
C9_NoSpawnAfterFailedWrite ==
    \A s \in Sessions :
        CredsFailed(s) =>
            /\ Count(emitted[s], MsgCredsFailed) = 1
            /\ procs[s] = << >>
            /\ pyshell[s] = 0
            /\ stdin[s] = << >>
            /\ deadWrites[s] = 0

\* the write failed, the client was told, and a command sent afterwards
\* found no subprocess
C9_Witness ==
    \E s \in Sessions :
        /\ conn[s] = "open"
        /\ emitted[s] = << MsgCredsFailed >>
        /\ recvIdle[s] > 0

(* C10: with CREDS set, a subprocess is only ever spawned when creds.json  *)
(* holds exactly the value of CREDS: the write comes before the spawn.     *)
(* The code breaks it where the write is fs.writeFile: the session's own   *)
(* write has completed before its spawn, but the write another connection  *)
(* has started in between has emptied the file again.                      *)
C10_CredsWrittenBeforeSpawn ==
    [][credsSet =>
          \A s \in Sessions :
              Len(procs'[s]) > Len(procs[s]) => credsFile' = CredsValue]_vars

\* the credential write of s has completed without error
WriteDone(s) ==
    /\ credsSet
    /\ conn[s] # "none"
    /\ writeState[s] = "idle"
    /\ ~CredsFailed(s)

\* what belongs to session s alone
SessionState(s) ==
    << conn[s], writeState[s], writePos[s], pyshell[s], procs[s], kickPending[s],
       errRaised[s], stdoutPipe[s], stderrPipe[s], produced[s], stdin[s],
       received[s], recvIdle[s], deadWrites[s], kickWritten[s], epipe[s],
       emitted[s], termCalls[s] >>

\* what the claim of isolation names: handle, lifecycle, stdin, output
SessionView(s) == << conn[s], pyshell[s], procs[s], stdin[s], emitted[s] >>

(* C11: when CREDS is not set, no write of creds.json is attempted, its    *)
(* content stays what it was, and the connection handler still runs the    *)
(* spawn: every connected session has its subprocess, the one exception    *)
(* being a spawn that failed (it threw, C12, or the interpreter could not  *)
(* be started).                                                            *)
C11_NoCredsNoWrite ==
    ~credsSet =>
        /\ credsFile = << StaleValue >>
        /\ \A s \in Sessions :
              /\ writeState[s] = "idle"
              /\ ~CredsFailed(s)
              /\ Len(procs[s]) = (IF conn[s] # "none" /\ ~SpawnFailed(s) /\ ~SpawnUncaught(s)
                                  THEN 1 ELSE 0)
              /\ (conn[s] # "none" /\ ~SpawnFailed(s) /\ ~SpawnUncaught(s)
                    /\ ~SpawnNoStart(s)) => Len(Started(s)) = 1

\* without CREDS, both sessions have connected and spawned, and the file is
\* still what it was
C11_Witness ==
    /\ ~credsSet
    /\ credsFile = << StaleValue >>
    /\ \A s \in Sessions : conn[s] = "open" /\ HandleLive(s)

(* C12: when the spawn throws, the client gets one failure message and the *)
(* session never runs: it has no subprocess, its handle stays empty and    *)
(* nothing is ever written to a stdin for it.                              *)
C12_SpawnFailureEndsSession ==
    \A s \in Sessions :
        SpawnFailed(s) =>
            /\ Count(emitted[s], MsgPythonFailed) = 1
            /\ procs[s] = << >>
            /\ pyshell[s] = 0
            /\ ~HandleLive(s)
            /\ stdin[s] = << >>
            /\ deadWrites[s] = 0

\* the spawn threw, the client was told, and a later command was dropped
C12_Witness ==
    \E s \in Sessions :
        /\ conn[s] = "open"
        /\ emitted[s] = << MsgPythonFailed >>
        /\ recvIdle[s] > 0
        /\ stdin[s] = << >>

\* the step leaves handle, socket, subprocess and stdin of s as they were
SessionKept(s) ==
    /\ pyshell'[s] = pyshell[s]
    /\ procs'[s] = procs[s]
    /\ conn'[s] = conn[s]
    /\ stdin'[s] = stdin[s]

\* the client of s has been sent an error of the subprocess
ErrorReported(s) ==
    EmittedOf(s, "stderr") # << >> \/ Count(emitted[s], MsgPyError) > 0

\* a command received by the running session after an error was reported
\* is written to stdin
StillForwarded(s) ==
    (Running(s) /\ ErrorReported(s) /\ Len(received'[s]) = Len(received[s]) + 1) =>
        stdin'[s] = Append(stdin[s], received'[s][Len(received'[s])])

(* C13 as stated: a line on standard error is reported to the client as a  *)
(* console_output message and leaves the session running, in every         *)
(* revision.                                                               *)
C13_StderrLineReported ==
    [][\A s \in Sessions :
          /\ Len(stderrPipe'[s]) < Len(stderrPipe[s]) =>
                /\ emitted'[s] = Append(emitted[s], Head(stderrPipe[s]))
                /\ SessionKept(s)
          /\ StillForwarded(s)]_vars

(* C13 amended: in part_000 a line on standard error is reported as one    *)
(* console_output message; index.js registers no 'stderr' listener, so     *)
(* there the line is dropped unreported and what is reported, as one       *)
(* message, is the 'error' event of the PythonShell.  In each of these     *)
(* steps handle, socket, subprocess and stdin are as before, and a command *)
(* the running session receives afterwards is still written to stdin.      *)
C13_RuntimeErrorKeepsSession ==
    [][\A s \in Sessions :
          /\ (variant = "part000" /\ Len(stderrPipe'[s]) < Len(stderrPipe[s])) =>
                /\ emitted'[s] = Append(emitted[s], Head(stderrPipe[s]))
                /\ SessionKept(s)
          /\ (variant # "part000" /\ Len(stderrPipe'[s]) < Len(stderrPipe[s])) =>
                /\ emitted'[s] = emitted[s]
                /\ SessionKept(s)
          /\ (variant # "part000" /\ errRaised'[s] /\ ~errRaised[s]) =>
                /\ emitted'[s] = Append(emitted[s], MsgPyError)
                /\ SessionKept(s)
          /\ StillForwarded(s)]_vars

\* a line of stderr has been reported, the session is still running and a
\* command has been forwarded
C13_Witness ==
    \E s \in Sessions :
        /\ variant = "part000"
        /\ Running(s)
        /\ EmittedOf(s, "stderr") # << >>
        /\ stdin[s] # << >>
        /\ stdin[s] = received[s]

\* the file holds nothing but bytes of CREDS at their own offset (or the
\* zero bytes before a write past the end), unless it is still what it was
\* before any write
NeverAppended ==
    \/ credsFile = << StaleValue >>
    \/ /\ Len(credsFile) <= Len(CredsValue)
       /\ \A i \in 1..Len(credsFile) : credsFile[i] \in {CredsValue[i], Hole}

(* C14 as stated: after any number of session starts with CREDS set, the   *)
(* file holds exactly the value of CREDS, once.                            *)
C14_CredsFileHoldsValue ==
    (credsSet /\ \E s \in Sessions : StartupDone(s)) => credsFile = CredsValue

(* C14 amended: creds.json never holds the value appended to earlier       *)
(* content: each write starts at offset 0 of the truncated file, and the   *)
(* file never holds more than bytes of CREDS at their own offset.  Once    *)
(* every session that connected has completed its write without error,     *)
(* the file holds exactly the value of CREDS, once, whether the writes     *)
(* came one after the other or overlapped.                                 *)
C14_CredsWriteIdempotent ==
    /\ NeverAppended
    /\ ( /\ \E s \in Sessions : WriteDone(s)
         /\ \A s \in Sessions : conn[s] # "none" => WriteDone(s) ) =>
            credsFile = CredsValue

\* both sessions have written the credential
C14_Witness ==
    /\ \A s \in Sessions : WriteDone(s)
    /\ credsFile = CredsValue

(* C15: in part_000 terminate() is called at most once per session, and    *)
(* never on a subprocess whose close event has been handled, in whatever   *)
(* order disconnect and close come.                                        *)
C15_TeardownOnce ==
    \A s \in Sessions :
        variant = "part000" =>
            /\ Len(termCalls[s]) <= 1
            /\ \A i \in 1..Len(termCalls[s]) : termCalls[s][i] # "closed"

\* the close event was handled first and the disconnect came afterwards:
\* terminate() was not called
C15_Witness ==
    \E s \in Sessions :
        /\ variant = "part000"
        /\ conn[s] = "closed"
        /\ procs[s] = << "closed" >>
        /\ termCalls[s] = << >>

(* C16: in part_000 sessions are isolated: a step that changes anything of *)
(* one session leaves the socket, handle, subprocesses, stdin and emitted  *)
(* output of every other session as they were.  The code breaks it: the    *)
(* 'error' event of one session's PythonShell (the interpreter could not   *)
(* be started) has no listener, and neither has the 'error' event of a     *)
(* stdin that a command was written to after the subprocess ended (EPIPE); *)
(* either is thrown and ends the server, and with it the connection of     *)
(* every other session.                                                    *)
C16_SessionsIsolated ==
    [][variant = "part000" =>
          \A s, t \in Sessions :
              (s # t /\ SessionState(s)' # SessionState(s)) =>
                  SessionView(t)' = SessionView(t)]_vars

(* C17: the warm-up line of the kick-start timer is written only to a      *)
(* running subprocess: after a disconnect, a firing timer writes nothing.  *)
(* The code breaks it: the timer is not cleared and its callback sends     *)
(* without looking at the subprocess.                                      *)
C17_NoKickAfterDisconnect ==
    [][\A s \in Sessions :
          (variant = "idx1" /\ conn[s] = "closed") =>
              deadWrites'[s] = deadWrites[s]]_vars

====
